---- MODULE Spec2Model ----
(***************************************************************************)
(* Model of src/app.py: the dashboard script that polls a Prometheus       *)
(* server and an OPNsense router and draws the values on a Turing Smart    *)
(* Screen.  Strings that the program parses or formats are sequences of    *)
(* one-character strings; a Python float is a sign and a magnitude in      *)
(* hundredths; an exception is the "exc" field of a call's outcome.        *)
(***************************************************************************)
EXTENDS Integers, Sequences, FiniteSets, TLC

(***************************************************************************)
(* Bounds of the model                                                     *)
(***************************************************************************)
\* number of refresh-loop iterations explored
MaxIter == 2
\* largest number of rows in data.result of a backend answer
MaxRows == 2

(***************************************************************************)
(* Program constants                                                       *)
(***************************************************************************)
HTTP_OK == 200
SleepSeconds == 5
BitsPerByte == 8
BitsPerMib == 1048576
BrightnessLevel == 15

\* hundredths per unit in the fixed-point image of a Python float
Scale == 100

(***************************************************************************)
(* Strings                                                                 *)
(***************************************************************************)
Digits == <<"0", "1", "2", "3", "4", "5", "6", "7", "8", "9">>

IsDigit(c) == \E d \in 1..10 : Digits[d] = c

DigitVal(c) == (CHOOSE d \in 1..10 : Digits[d] = c) - 1

AllDigits(s) == \A i \in 1..Len(s) : IsDigit(s[i])

RECURSIVE DigitsVal(_)
DigitsVal(s) ==
    IF s = <<>> THEN 0
    ELSE DigitsVal(SubSeq(s, 1, Len(s) - 1)) * 10 + DigitVal(s[Len(s)])

RECURSIVE NatStr(_)
NatStr(n) ==
    IF n < 10 THEN <<Digits[n + 1]>>
    ELSE NatStr(n \div 10) \o <<Digits[(n % 10) + 1]>>

\* str(n) of a Python int
IntStr(n) == IF n < 0 THEN <<"-">> \o NatStr(-n) ELSE NatStr(n)

RECURSIVE Spaces(_)
Spaces(n) == IF n <= 0 THEN <<>> ELSE <<" ">> \o Spaces(n - 1)

\* the format specification ":>w" : right-align in a field of width w
PadLeft(s, w) == Spaces(w - Len(s)) \o s

ERR == <<"E", "R", "R">>
NaNStr == <<"N", "a", "N">>
DegreeSuffix == <<"º">>
WattSuffix == <<"W">>
KwSuffix == <<"k", "W">>
MibPerSecSuffix == <<" ", "M", "i", "b", "/", "s">>
MiBPerSecSuffix == <<" ", "M", "i", "B", "/", "s">>
DLPrefix == <<"D", "L", ":", " ">>
ULPrefix == <<"U", "L", ":", " ">>

(***************************************************************************)
(* Outcome of a call: a returned value or a raised exception               *)
(***************************************************************************)
Return(v) == [exc |-> "none", val |-> v]
Raise(e) == [exc |-> e, val |-> <<>>]

(***************************************************************************)
(* Python floats                                                           *)
(***************************************************************************)
Num(neg, mag) == [kind |-> "num", neg |-> neg, mag |-> mag]
NaN == [kind |-> "nan", neg |-> FALSE, mag |-> 0]

FirstDot(s) ==
    IF \E i \in 1..Len(s) : s[i] = "."
    THEN CHOOSE i \in 1..Len(s) : s[i] = "." /\ \A j \in 1..(i - 1) : s[j] # "."
    ELSE 0

\* the fraction digits as hundredths ("4" is 40, "25" is 25)
FracVal(f) ==
    IF Len(f) = 0 THEN 0
    ELSE IF Len(f) = 1 THEN DigitVal(f[1]) * 10
    ELSE DigitVal(f[1]) * 10 + DigitVal(f[2])

\* float(s) on the unsigned part of s
FloatUnsigned(neg, body) ==
    LET dot == FirstDot(body)
        ip == IF dot = 0 THEN body ELSE SubSeq(body, 1, dot - 1)
        fp == IF dot = 0 THEN <<>> ELSE SubSeq(body, dot + 1, Len(body))
    IN  IF body = NaNStr THEN Return(NaN)
        ELSE IF AllDigits(ip) /\ AllDigits(fp) /\ Len(ip) + Len(fp) > 0
                /\ Len(fp) <= 2
             THEN Return(Num(neg, DigitsVal(ip) * Scale + FracVal(fp)))
             ELSE Raise("ValueError")

\* float(s): ValueError when s is not a number literal
PyFloat(s) ==
    IF Len(s) > 0 /\ s[1] \in {"+", "-"}
    THEN FloatUnsigned(s[1] = "-", SubSeq(s, 2, Len(s)))
    ELSE FloatUnsigned(FALSE, s)

\* round half to even of mag / unit
HalfEven(mag, unit) ==
    LET q == mag \div unit
        r == mag % unit
    IN  IF 2 * r < unit THEN q
        ELSE IF 2 * r > unit THEN q + 1
        ELSE IF q % 2 = 0 THEN q ELSE q + 1

\* round(x): an int; ValueError on a NaN
PyRound(x) ==
    IF x.kind = "nan" THEN Raise("ValueError")
    ELSE LET m == HalfEven(x.mag, Scale)
         IN  Return(IF x.neg THEN -m ELSE m)

\* round(x, 1): a float with one decimal, here a magnitude in tenths
PyRound1(x) ==
    IF x.kind = "nan" THEN NaN
    ELSE Num(x.neg, HalfEven(x.mag, Scale \div 10))

\* str() of a float that holds tenths
TenthsStr(neg, t) ==
    (IF neg THEN <<"-">> ELSE <<>>) \o NatStr(t \div 10) \o <<".">>
        \o <<Digits[(t % 10) + 1]>>

FloatStr(x) == IF x.kind = "nan" THEN <<"n", "a", "n">> ELSE TenthsStr(x.neg, x.mag)

ValueStr(x) == IF x.kind = "int" THEN IntStr(x.mag) ELSE FloatStr(x)

\* the int 0 that replaces purchased_energy after a ValueError
IntZero == [kind |-> "int", neg |-> FALSE, mag |-> 0]

(***************************************************************************)
(* Metrics backend: the answers the Prometheus server can give             *)
(***************************************************************************)
\* the strings a result row carries as its value
Values ==
    { <<"2", "1", ".", "4">>, <<"0", ".", "5">>, <<"1", ".", "5">>,
      NaNStr, <<"a", "b", "c">> }

\* the value of every row of an answer that has several rows
ManyRowsValue == <<"2", "1", ".", "4">>

\* data.result: no row, one row, or up to MaxRows rows
Results ==
    {<<>>} \cup {<<v>> : v \in Values}
        \cup {[i \in 1..n |-> ManyRowsValue] : n \in 2..MaxRows}

\* the status codes other than 200 that the servers answer with
FailureStatuses == {404, 503}

Responses ==
    {[status_code |-> HTTP_OK, result |-> rows] : rows \in Results}
        \cup {[status_code |-> c, result |-> <<>>] : c \in FailureStatuses}

NoResponse == [status_code |-> 0, result |-> <<>>]

PromQuery(metricname, label) ==
    "last_over_time(" \o metricname \o "{" \o label \o "}[1h])"

(***************************************************************************)
(* Metric fetchers                                                         *)
(***************************************************************************)
\* get_prom_metric with int(float(metric)) in place of round(float(metric))
get_prom_metric_truncating(response) ==
    IF response.status_code = HTTP_OK
    THEN IF Len(response.result) = 1
         THEN LET f == PyFloat(response.result[1])
              IN  IF f.exc # "none" THEN Raise(f.exc)
                  ELSE IF f.val.kind = "nan" THEN Raise("ValueError")
                  ELSE Return(IntStr(IF f.val.neg THEN -(f.val.mag \div Scale)
                                     ELSE f.val.mag \div Scale))
         ELSE Return(ERR)
    ELSE Raise("TypeError")

\* get_prom_metric, given the server's response to its query
get_prom_metric(response) ==
    IF response.status_code = HTTP_OK
    THEN IF Len(response.result) = 1
         THEN LET f == PyFloat(response.result[1])
                  r == PyRound(f.val)
              IN  IF f.exc # "none" THEN Raise(f.exc)
                  ELSE IF r.exc # "none" THEN Raise(r.exc)
                  ELSE Return(IntStr(r.val))
         ELSE Return(ERR)
    ELSE Raise("TypeError")

\* get_prom_metric_from_query with len(...) >= 1 in place of len(...) == 1
get_prom_metric_from_query_first_row(response) ==
    IF response.status_code = HTTP_OK
    THEN IF Len(response.result) >= 1
         THEN Return(response.result[1])
         ELSE Return(ERR)
    ELSE Raise("TypeError")

\* get_prom_metric_from_query, given the server's response to its query
get_prom_metric_from_query(response) ==
    IF response.status_code = HTTP_OK
    THEN IF Len(response.result) = 1
         THEN Return(response.result[1])
         ELSE Return(ERR)
    ELSE Raise("TypeError")

(***************************************************************************)
(* Network speed                                                           *)
(***************************************************************************)
\* cumulative byte counters (received, transmitted) the router can report
\* for the wan interface
Readings ==
    { <<0, 0>>, <<131072, 1048576>>, <<1048576, 131072>> }

\* seconds between two readings of the clock
Elapsed == {1, 5}

RouterResponses ==
    {[status_code |-> HTTP_OK, received |-> c[1], transmitted |-> c[2]] :
        c \in Readings}
        \cup {[status_code |-> c, received |-> 0, transmitted |-> 0] :
                 c \in FailureStatuses}

Abs(n) == IF n < 0 THEN -n ELSE n

\* the format with .MiB (mebibytes) in place of .Mib (mebibits)
MiBFormat(delta_bytes, seconds) ==
    TenthsStr(delta_bytes < 0,
              HalfEven(Abs(delta_bytes) * 10, BitsPerMib * seconds))
        \o MiBPerSecSuffix

\* bitmath.Byte(delta_bytes / seconds).Mib.format("{value:.1f} {unit}/s")
MibFormat(delta_bytes, seconds) ==
    TenthsStr(delta_bytes < 0,
              HalfEven(Abs(delta_bytes) * BitsPerByte * 10, BitsPerMib * seconds))
        \o MibPerSecSuffix

\* network_speed, given the router's response r and the clock reading;
\* old_d, old_u and last_t are the globals before the call
network_speed(r, now_time, old_d, old_u, last_t) ==
    IF r.status_code = HTTP_OK
    THEN LET delta_time == now_time - last_t
             delta_downloaded_bytes == r.received - old_d
             delta_uploaded_bytes == r.transmitted - old_u
         IN  [exc |-> "none",
              val |-> <<MibFormat(delta_downloaded_bytes, delta_time),
                        MibFormat(delta_uploaded_bytes, delta_time)>>,
              old_downloaded_bytes |-> r.received,
              old_uploaded_bytes |-> r.transmitted,
              last_time |-> now_time]
    ELSE [exc |-> "TypeError", val |-> <<>>,
          old_downloaded_bytes |-> old_d,
          old_uploaded_bytes |-> old_u,
          last_time |-> last_t]

(***************************************************************************)
(* Display layout                                                          *)
(***************************************************************************)
Revisions == {"A", "B", "SIMU"}
RevisionSettings == Revisions \cup {"C"}

Temperature == "thermometer_temperature_celsius"
Watts == "tasmota_energy_power_active_watts"

\* the fields read by get_prom_metric, in the order of the loop body
Fields ==
    << [metricname |-> Temperature, label |-> "room='Office'", x |-> 150, y |-> 50],
       [metricname |-> Temperature, label |-> "room='Lounge'", x |-> 150, y |-> 85],
       [metricname |-> Temperature, label |-> "room='LBedroom'", x |-> 150, y |-> 120],
       [metricname |-> Temperature, label |-> "room='Upstairs'", x |-> 150, y |-> 155],
       [metricname |-> Temperature, label |-> "room='Bedroom'", x |-> 150, y |-> 190],
       [metricname |-> Temperature, label |-> "room='Backyard'", x |-> 150, y |-> 225],
       [metricname |-> Temperature, label |-> "room='Garage'", x |-> 150, y |-> 260],
       [metricname |-> Watts, label |-> "job='Computer'", x |-> 405, y |-> 50],
       [metricname |-> Watts, label |-> "job='K Computer'", x |-> 405, y |-> 85],
       [metricname |-> Watts, label |-> "job='TV'", x |-> 405, y |-> 120],
       [metricname |-> Watts, label |-> "job='Chia'", x |-> 405, y |-> 155] >>

NFields == Len(Fields)

\* the three further values of an iteration
PurchasedField == NFields + 1
SolarField == NFields + 2
NetField == NFields + 3
AllFields == 1..NetField

PurchasedQuery == "solaredge_api_purchased_energy/1000"
SolarQuery == "AC_Power*(10^AC_Power_SF)/1000"

\* the static texts drawn before the loop
Labels ==
    << [text |-> "Temperature", x |-> 10, y |-> 10],
       [text |-> "Office:", x |-> 10, y |-> 50],
       [text |-> "Lounge:", x |-> 10, y |-> 85],
       [text |-> "L Room:", x |-> 10, y |-> 120],
       [text |-> "Upstairs:", x |-> 10, y |-> 155],
       [text |-> "Bedroom:", x |-> 10, y |-> 190],
       [text |-> "Backyard:", x |-> 10, y |-> 225],
       [text |-> "Garage:", x |-> 10, y |-> 260],
       [text |-> "Power", x |-> 240, y |-> 10],
       [text |-> "PC:", x |-> 240, y |-> 50],
       [text |-> "K PC:", x |-> 240, y |-> 85],
       [text |-> "TV:", x |-> 240, y |-> 120],
       [text |-> "Chia:", x |-> 240, y |-> 155],
       [text |-> "Grid:", x |-> 240, y |-> 190] >>

\* the text drawn for field i from the string the fetcher returned
FieldText(i, metric) ==
    IF Fields[i].metricname = Temperature
    THEN metric \o DegreeSuffix
    ELSE PadLeft(metric \o WattSuffix, 5)

(***************************************************************************)
(* State of the process                                                    *)
(***************************************************************************)
VARIABLES
    REVISION,               \* the configured hardware revision
    pc,                     \* position of the main script
    fld,                    \* index in Fields of the field being refreshed
    lbl,                    \* index in Labels of the next static text
    stop,                   \* the global stop flag
    lcd_comm,               \* the display driver object, "None" before it is built
    old_downloaded_bytes,
    old_uploaded_bytes,
    last_time,              \* seconds, the clock reading of the last network_speed
    query,                  \* the query of the last request to the backend
    response,               \* the backend's answer to it
    returned,               \* the outcome of the last metric fetcher call
    purchased_energy,
    current_solar_power,
    speed,                  \* the pair network_speed returned
    net,                    \* the last network_speed call: its inputs
    drawn,                  \* the last call on lcd_comm
    exc,                    \* the uncaught exception that ended the process
    iter,                   \* number of the current loop iteration
    stopIter,               \* iteration in progress when stop was first set, or 0
    fetchCnt,               \* fetches per field in the current iteration
    drawCnt,                \* lcd_comm calls per field in the current iteration
    rateWrites,             \* writes of the rate globals in the current iteration
    fetches,                \* requests issued since startup
    lcdCalls,               \* calls on lcd_comm since startup
    closeCalls              \* calls of lcd_comm.closeSerial since startup

rateState == <<old_downloaded_bytes, old_uploaded_bytes, last_time>>
request == <<query, response>>
locals == <<returned, purchased_energy, current_solar_power, speed>>
position == <<fld, lbl>>
counts == <<fetchCnt, drawCnt, rateWrites>>
vars == <<REVISION, pc, fld, lbl, stop, lcd_comm, old_downloaded_bytes,
          old_uploaded_bytes, last_time, query, response, returned,
          purchased_energy, current_solar_power, speed, net, drawn, exc, iter,
          stopIter, fetchCnt, drawCnt, rateWrites, fetches, lcdCalls, closeCalls>>

NoCounts == [i \in AllFields |-> 0]
NoCall == [op |-> "none"]
NoNet == [n |-> 0]

\* the positions inside one iteration of the refresh loop
InIteration ==
    pc \in {"fetch", "draw", "purchased_fetch", "purchased_draw", "solar_fetch",
            "solar_bar", "solar_draw", "net_fetch", "net_dl", "net_ul", "sleep"}

Init ==
    /\ REVISION \in RevisionSettings
    /\ pc = "handlers"
    /\ fld = 1
    /\ lbl = 1
    /\ stop = FALSE
    /\ lcd_comm = "None"
    /\ old_downloaded_bytes = 0
    /\ old_uploaded_bytes = 0
    /\ last_time = 0
    /\ query = ""
    /\ response = NoResponse
    /\ returned = Return(<<>>)
    /\ purchased_energy = IntZero
    /\ current_solar_power = IntZero
    /\ speed = <<>>
    /\ net = NoNet
    /\ drawn = NoCall
    /\ exc = "none"
    /\ iter = 0
    /\ stopIter = 0
    /\ fetchCnt = NoCounts
    /\ drawCnt = NoCounts
    /\ rateWrites = 0
    /\ fetches = 0
    /\ lcdCalls = 0
    /\ closeCalls = 0

(***************************************************************************)
(* Steps of the main script                                                *)
(***************************************************************************)
\* a call on lcd_comm
Lcd(call) == drawn' = call /\ lcdCalls' = lcdCalls + 1

\* an exception nothing catches ends the process
Uncaught(e) == pc' = "crashed" /\ exc' = e

\* signal.signal(...) for SIGINT, SIGTERM and SIGQUIT
InstallHandlers ==
    /\ pc = "handlers"
    /\ pc' = "revision"
    /\ UNCHANGED <<REVISION, position, stop, lcd_comm, rateState, request, locals,
                   net, drawn, exc, iter, stopIter, counts, fetches, lcdCalls,
                   closeCalls>>

\* sighandler: SIGINT, SIGTERM or SIGQUIT delivered to the running process
sighandler ==
    /\ pc \notin {"handlers", "exited", "crashed"}
    /\ stop' = TRUE
    /\ stopIter' = IF ~stop /\ InIteration THEN iter ELSE stopIter
    /\ UNCHANGED <<REVISION, pc, position, lcd_comm, rateState, request, locals,
                   net, drawn, exc, iter, counts, fetches, lcdCalls, closeCalls>>

\* the choice of the driver without the exit of the else branch
SelectRevisionNoExit ==
    /\ pc = "revision"
    /\ lcd_comm' = IF REVISION \in Revisions THEN REVISION ELSE lcd_comm
    /\ pc' = "Reset"
    /\ UNCHANGED <<REVISION, position, stop, rateState, request, locals, net,
                   drawn, exc, iter, stopIter, counts, fetches, lcdCalls,
                   closeCalls>>

\* the choice of the driver; an unknown revision exits the process
SelectRevision ==
    /\ pc = "revision"
    /\ IF REVISION \in Revisions
       THEN lcd_comm' = REVISION /\ pc' = "Reset"
       ELSE lcd_comm' = lcd_comm /\ pc' = "exited"
    /\ UNCHANGED <<REVISION, position, stop, rateState, request, locals, net,
                   drawn, exc, iter, stopIter, counts, fetches, lcdCalls,
                   closeCalls>>

\* Reset, InitializeComm, SetBrightness, SetOrientation in this order
Setup ==
    /\ pc \in {"Reset", "InitializeComm", "SetBrightness", "SetOrientation"}
    /\ Lcd(IF pc = "SetBrightness" THEN [op |-> pc, level |-> BrightnessLevel]
           ELSE IF pc = "SetOrientation" THEN [op |-> pc, orientation |-> "LANDSCAPE"]
           ELSE [op |-> pc])
    /\ pc' = CASE pc = "Reset" -> "InitializeComm"
               [] pc = "InitializeComm" -> "SetBrightness"
               [] pc = "SetBrightness" -> "SetOrientation"
               [] pc = "SetOrientation" -> "labels"
    /\ UNCHANGED <<REVISION, position, stop, lcd_comm, rateState, request, locals,
                   net, exc, iter, stopIter, counts, fetches, closeCalls>>

\* the static texts
DrawLabel ==
    /\ pc = "labels"
    /\ Lcd([op |-> "DisplayText", text |-> Labels[lbl].text,
            x |-> Labels[lbl].x, y |-> Labels[lbl].y])
    /\ IF lbl < Len(Labels)
       THEN lbl' = lbl + 1 /\ pc' = pc
       ELSE lbl' = lbl /\ pc' = "while"
    /\ UNCHANGED <<REVISION, fld, stop, lcd_comm, rateState, request, locals, net,
                   exc, iter, stopIter, counts, fetches, closeCalls>>

\* while not stop
WhileTest ==
    /\ pc = "while"
    /\ \/ /\ stop
          /\ pc' = "close"
          /\ UNCHANGED <<iter, fld, counts>>
       \/ /\ ~stop
          /\ iter < MaxIter
          /\ iter' = iter + 1
          /\ fld' = 1
          /\ fetchCnt' = NoCounts
          /\ drawCnt' = NoCounts
          /\ rateWrites' = 0
          /\ pc' = "fetch"
    /\ UNCHANGED <<REVISION, lbl, stop, lcd_comm, rateState, request, locals, net,
                   drawn, exc, stopIter, fetches, lcdCalls, closeCalls>>

\* get_prom_metric(...) for field fld: the request and the server's answer
FetchField ==
    /\ pc = "fetch"
    /\ \E r \in Responses :
         LET out == get_prom_metric(r)
         IN  /\ query' = PromQuery(Fields[fld].metricname, Fields[fld].label)
             /\ response' = r
             /\ returned' = out
             /\ IF out.exc = "none"
                THEN pc' = "draw" /\ exc' = exc
                ELSE Uncaught(out.exc)
    /\ fetchCnt' = [fetchCnt EXCEPT ![fld] = @ + 1]
    /\ fetches' = fetches + 1
    /\ UNCHANGED <<REVISION, position, stop, lcd_comm, rateState, purchased_energy,
                   current_solar_power, speed, net, drawn, iter, stopIter, drawCnt,
                   rateWrites, lcdCalls, closeCalls>>

\* the loop body with the statements of the last field left out
DrawFieldLastOmitted ==
    /\ pc = "draw"
    /\ Lcd([op |-> "DisplayText", text |-> FieldText(fld, returned.val),
            x |-> Fields[fld].x, y |-> Fields[fld].y])
    /\ drawCnt' = [drawCnt EXCEPT ![fld] = @ + 1]
    /\ IF fld < NFields - 1
       THEN fld' = fld + 1 /\ pc' = "fetch"
       ELSE fld' = fld /\ pc' = "purchased_fetch"
    /\ UNCHANGED <<REVISION, lbl, stop, lcd_comm, rateState, request, locals, net,
                   exc, iter, stopIter, fetchCnt, rateWrites, fetches, closeCalls>>

\* lcd_comm.DisplayText(...) of the value of field fld
DrawField ==
    /\ pc = "draw"
    /\ Lcd([op |-> "DisplayText", text |-> FieldText(fld, returned.val),
            x |-> Fields[fld].x, y |-> Fields[fld].y])
    /\ drawCnt' = [drawCnt EXCEPT ![fld] = @ + 1]
    /\ IF fld < NFields
       THEN fld' = fld + 1 /\ pc' = "fetch"
       ELSE fld' = fld /\ pc' = "purchased_fetch"
    /\ UNCHANGED <<REVISION, lbl, stop, lcd_comm, rateState, request, locals, net,
                   exc, iter, stopIter, fetchCnt, rateWrites, fetches, closeCalls>>

\* value = get_prom_metric_from_query(...) and the try block around
\* round(float(value), 1), which turns a ValueError into 0
PurchasedFetch ==
    /\ pc = "purchased_fetch"
    /\ \E r \in Responses :
         LET out == get_prom_metric_from_query(r)
             f == PyFloat(out.val)
         IN  /\ query' = PurchasedQuery
             /\ response' = r
             /\ returned' = out
             /\ IF out.exc # "none"
                THEN /\ Uncaught(out.exc)
                     /\ UNCHANGED purchased_energy
                ELSE /\ purchased_energy' =
                            IF f.exc = "ValueError" THEN IntZero ELSE PyRound1(f.val)
                     /\ pc' = "purchased_draw"
                     /\ exc' = exc
    /\ fetchCnt' = [fetchCnt EXCEPT ![PurchasedField] = @ + 1]
    /\ fetches' = fetches + 1
    /\ UNCHANGED <<REVISION, position, stop, lcd_comm, rateState,
                   current_solar_power, speed, net, drawn, iter, stopIter, drawCnt,
                   rateWrites, lcdCalls, closeCalls>>

PurchasedDraw ==
    /\ pc = "purchased_draw"
    /\ Lcd([op |-> "DisplayText",
            text |-> PadLeft(ValueStr(purchased_energy), 5) \o KwSuffix,
            x |-> 375, y |-> 190])
    /\ drawCnt' = [drawCnt EXCEPT ![PurchasedField] = @ + 1]
    /\ pc' = "solar_fetch"
    /\ UNCHANGED <<REVISION, position, stop, lcd_comm, rateState, request, locals,
                   net, exc, iter, stopIter, fetchCnt, rateWrites, fetches,
                   closeCalls>>

\* current_solar_power = round(float(get_prom_metric_from_query(...)), 1)
SolarFetch ==
    /\ pc = "solar_fetch"
    /\ \E r \in Responses :
         LET out == get_prom_metric_from_query(r)
             f == PyFloat(out.val)
         IN  /\ query' = SolarQuery
             /\ response' = r
             /\ returned' = out
             /\ IF out.exc # "none"
                THEN /\ Uncaught(out.exc)
                     /\ UNCHANGED current_solar_power
                ELSE IF f.exc # "none"
                THEN /\ Uncaught(f.exc)
                     /\ UNCHANGED current_solar_power
                ELSE /\ current_solar_power' = PyRound1(f.val)
                     /\ pc' = "solar_bar"
                     /\ exc' = exc
    /\ fetchCnt' = [fetchCnt EXCEPT ![SolarField] = @ + 1]
    /\ fetches' = fetches + 1
    /\ UNCHANGED <<REVISION, position, stop, lcd_comm, rateState, purchased_energy,
                   speed, net, drawn, iter, stopIter, drawCnt, rateWrites, lcdCalls,
                   closeCalls>>

SolarBar ==
    /\ pc = "solar_bar"
    /\ Lcd([op |-> "DisplayProgressBar", value |-> current_solar_power,
            x |-> 240, y |-> 225])
    /\ drawCnt' = [drawCnt EXCEPT ![SolarField] = @ + 1]
    /\ pc' = "solar_draw"
    /\ UNCHANGED <<REVISION, position, stop, lcd_comm, rateState, request, locals,
                   net, exc, iter, stopIter, fetchCnt, rateWrites, fetches,
                   closeCalls>>

SolarDraw ==
    /\ pc = "solar_draw"
    /\ Lcd([op |-> "DisplayText",
            text |-> PadLeft(ValueStr(current_solar_power), 4) \o KwSuffix,
            x |-> 390, y |-> 225])
    /\ drawCnt' = [drawCnt EXCEPT ![SolarField] = @ + 1]
    /\ pc' = "net_fetch"
    /\ UNCHANGED <<REVISION, position, stop, lcd_comm, rateState, request, locals,
                   net, exc, iter, stopIter, fetchCnt, rateWrites, fetches,
                   closeCalls>>

\* speed = network_speed(): the router's answer and the clock reading; a
\* sleep of SleepSeconds lies between two calls
NetFetch ==
    /\ pc = "net_fetch"
    /\ \E r \in RouterResponses, dt \in Elapsed :
         LET out == network_speed(r, last_time + dt, old_downloaded_bytes,
                                  old_uploaded_bytes, last_time)
         IN  /\ net.n > 0 => dt >= SleepSeconds
             /\ net' = [n |-> net.n + 1, r |-> r, delta_time |-> dt,
                        old_downloaded_bytes |-> old_downloaded_bytes,
                        old_uploaded_bytes |-> old_uploaded_bytes]
             /\ old_downloaded_bytes' = out.old_downloaded_bytes
             /\ old_uploaded_bytes' = out.old_uploaded_bytes
             /\ last_time' = out.last_time
             /\ rateWrites' = IF r.status_code = HTTP_OK
                              THEN rateWrites + 1 ELSE rateWrites
             /\ IF out.exc = "none"
                THEN speed' = out.val /\ pc' = "net_dl" /\ exc' = exc
                ELSE speed' = speed /\ Uncaught(out.exc)
    /\ fetchCnt' = [fetchCnt EXCEPT ![NetField] = @ + 1]
    /\ fetches' = fetches + 1
    /\ UNCHANGED <<REVISION, position, stop, lcd_comm, request, returned,
                   purchased_energy, current_solar_power, drawn, iter, stopIter,
                   drawCnt, lcdCalls, closeCalls>>

NetDrawDL ==
    /\ pc = "net_dl"
    /\ Lcd([op |-> "DisplayText", text |-> DLPrefix \o PadLeft(speed[1], 12),
            x |-> 240, y |-> 260])
    /\ drawCnt' = [drawCnt EXCEPT ![NetField] = @ + 1]
    /\ pc' = "net_ul"
    /\ UNCHANGED <<REVISION, position, stop, lcd_comm, rateState, request, locals,
                   net, exc, iter, stopIter, fetchCnt, rateWrites, fetches,
                   closeCalls>>

NetDrawUL ==
    /\ pc = "net_ul"
    /\ Lcd([op |-> "DisplayText", text |-> ULPrefix \o PadLeft(speed[2], 12),
            x |-> 240, y |-> 290])
    /\ drawCnt' = [drawCnt EXCEPT ![NetField] = @ + 1]
    /\ pc' = "sleep"
    /\ UNCHANGED <<REVISION, position, stop, lcd_comm, rateState, request, locals,
                   net, exc, iter, stopIter, fetchCnt, rateWrites, fetches,
                   closeCalls>>

\* time.sleep(5)
Sleep ==
    /\ pc = "sleep"
    /\ pc' = "while"
    /\ UNCHANGED <<REVISION, position, stop, lcd_comm, rateState, request, locals,
                   net, drawn, exc, iter, stopIter, counts, fetches, lcdCalls,
                   closeCalls>>

\* lcd_comm.closeSerial(), then the script ends
CloseSerial ==
    /\ pc = "close"
    /\ Lcd([op |-> "closeSerial"])
    /\ closeCalls' = closeCalls + 1
    /\ pc' = "exited"
    /\ UNCHANGED <<REVISION, position, stop, lcd_comm, rateState, request, locals,
                   net, exc, iter, stopIter, counts, fetches>>

Next ==
    \/ InstallHandlers
    \/ sighandler
    \/ SelectRevision
    \/ Setup
    \/ DrawLabel
    \/ WhileTest
    \/ FetchField
    \/ DrawField
    \/ PurchasedFetch
    \/ PurchasedDraw
    \/ SolarFetch
    \/ SolarBar
    \/ SolarDraw
    \/ NetFetch
    \/ NetDrawDL
    \/ NetDrawUL
    \/ Sleep
    \/ CloseSerial

Spec == Init /\ [][Next]_vars

(***************************************************************************)
(* Properties                                                              *)
(***************************************************************************)
\* the process has ended, by the end of the script, os._exit or a traceback
Ended == pc \in {"exited", "crashed"}

\* the last fetcher call was get_prom_metric / get_prom_metric_from_query
ByLabelQuery == \E i \in 1..NFields : query = PromQuery(Fields[i].metricname, Fields[i].label)
ByRawQuery == query \in {PurchasedQuery, SolarQuery}

\* C1: once the stop flag is set while an iteration is in progress, that
\* iteration runs to its end, no later iteration (hence no later fetch)
\* starts, and closeSerial is called exactly once before the process ends.
C1_StopFinishesIterationAndCloses ==
    stopIter # 0 =>
        /\ iter = stopIter
        /\ pc # "crashed"
        /\ closeCalls <= 1
        /\ Ended => closeCalls = 1

\* C2: no backend answer ends the running loop with an uncaught exception.
C2_NoBackendOutcomeAborts == pc # "crashed" /\ exc = "none"

\* C3: a non-success status makes the fetcher return "ERR", which is then
\* drawn for the field, and the loop goes on without raising.
C3_Non200ReturnsERR ==
    response.status_code \in FailureStatuses =>
        /\ returned = Return(ERR)
        /\ pc # "crashed"

\* C4: an HTTP 200 answer with zero rows or several rows makes both
\* fetchers return "ERR" without raising.
C4_NotOneRowReturnsERR ==
    response.status_code = HTTP_OK /\ Len(response.result) # 1 =>
        returned = Return(ERR)

C4_Witness ==
    /\ pc = "purchased_draw"
    /\ query = PurchasedQuery
    /\ response.status_code = HTTP_OK
    /\ Len(response.result) = 2
    /\ returned.val = ERR

\* a metric fetcher call has just ended, by a return or by an exception
JustFetched == pc \in {"draw", "purchased_draw", "solar_bar", "crashed"}

\* the answer is HTTP 200 with one row whose value is a number
WellFormed(r) ==
    /\ r.status_code = HTTP_OK
    /\ Len(r.result) = 1
    /\ PyFloat(r.result[1]).exc = "none"
    /\ PyFloat(r.result[1]).val.kind = "num"

\* the number a value string denotes, in hundredths
Hundredths(v) ==
    LET f == PyFloat(v).val IN IF f.neg THEN -f.mag ELSE f.mag

\* s is the decimal form of the integer nearest to the value v, the even
\* one of the two when v lies halfway
IsNearestInteger(s, v) ==
    /\ PyFloat(s).exc = "none"
    /\ PyFloat(s).val.kind = "num"
    /\ LET n == Hundredths(s) \div Scale
       IN  /\ s = IntStr(n)
           /\ 2 * Abs(n * Scale - Hundredths(v)) <= Scale
           /\ 2 * Abs(n * Scale - Hundredths(v)) = Scale => n % 2 = 0

NetReturned == pc = "net_dl" /\ net.n > 0 /\ net.r.status_code = HTTP_OK

DeltaDown == net.r.received - net.old_downloaded_bytes
DeltaUp == net.r.transmitted - net.old_uploaded_bytes

ZeroMib == <<"0", ".", "0">> \o MibPerSecSuffix

\* C6: when a counter of the second or a later successful call is lower than
\* the stored one, the reported rate is zero, never negative.
C6_NegativeDeltaClamped ==
    NetReturned /\ net.n >= 2 =>
        /\ DeltaDown < 0 => speed[1] = ZeroMib
        /\ DeltaUp < 0 => speed[2] = ZeroMib

\* C7: the first call takes its previous counters from the first reading, so
\* the first reported rates are zero whatever the cumulative counters are.
C7_FirstCallSeeded ==
    NetReturned /\ net.n = 1 => speed = <<ZeroMib, ZeroMib>>

\* s is the rate of delta bytes in seconds, in units of unitBits bits per
\* second, written with one decimal (the nearest tenth) and the suffix
IsRate(s, delta, seconds, unitBits, suffix) ==
    LET k == Len(s) - Len(suffix)
        number == SubSeq(s, 1, k)
    IN  /\ k >= 3
        /\ SubSeq(s, k + 1, Len(s)) = suffix
        /\ number[k - 1] = "."
        /\ PyFloat(number).exc = "none"
        /\ PyFloat(number).val.kind = "num"
        /\ PyFloat(number).val.neg = (delta < 0)
        /\ LET t == PyFloat(number).val.mag \div (Scale \div 10)
           IN  /\ number = TenthsStr(delta < 0, t)
               /\ 2 * Abs(t * unitBits * seconds - Abs(delta) * BitsPerByte * 10)
                     <= unitBits * seconds

\* C8 as stated: the rate is bytes per second with one decimal, in MiB/s:
\* 0 bytes in 1 second give 0.0 and 1048576 bytes in 1 second give 1.0.
C8_RateInMebibytes ==
    NetReturned =>
        /\ DeltaDown = 0 /\ net.delta_time = 1 =>
              SubSeq(speed[1], 1, 3) = <<"0", ".", "0">>
        /\ DeltaDown = 1048576 /\ net.delta_time = 1 =>
              SubSeq(speed[1], 1, 3) = <<"1", ".", "0">>

\* C8 as amended: the rate is (current - previous) * 8 / seconds in Mib/s
\* (mebibits) to the nearest tenth: 0 bytes in 1 second give "0.0 Mib/s",
\* 1048576 bytes in 1 second give "8.0 Mib/s", 131072 bytes "1.0 Mib/s".
C8_RateInMebibits ==
    NetReturned =>
        /\ IsRate(speed[1], DeltaDown, net.delta_time, BitsPerMib, MibPerSecSuffix)
        /\ IsRate(speed[2], DeltaUp, net.delta_time, BitsPerMib, MibPerSecSuffix)
        /\ DeltaDown = 0 /\ net.delta_time = 1 => speed[1] = ZeroMib
        /\ DeltaDown = 1048576 /\ net.delta_time = 1 =>
              speed[1] = <<"8", ".", "0">> \o MibPerSecSuffix
        /\ DeltaDown = 131072 /\ net.delta_time = 1 =>
              speed[1] = <<"1", ".", "0">> \o MibPerSecSuffix

C8_Witness ==
    /\ pc = "net_dl"
    /\ NetReturned
    /\ DeltaDown = 1048576
    /\ net.delta_time = 1
    /\ speed[1] = <<"8", ".", "0">> \o MibPerSecSuffix

\* C9: with a REVISION other than "A", "B", "SIMU" the process ends at startup:
\* no call on lcd_comm, no fetch and no loop iteration ever happens.
C9_UnknownRevisionExits ==
    REVISION \notin Revisions =>
        /\ pc \in {"handlers", "revision", "exited"}
        /\ lcd_comm = "None"
        /\ drawn = NoCall
        /\ lcdCalls = 0
        /\ closeCalls = 0
        /\ fetches = 0
        /\ iter = 0

C9_Witness == REVISION \notin Revisions /\ pc = "exited"

\* the lcd_comm calls one iteration makes for field i
ExpectedDraws(i) == IF i \in {SolarField, NetField} THEN 2 ELSE 1

\* state part of C10
IterationShape ==
    /\ \A i \in AllFields :
          /\ fetchCnt[i] <= 1
          /\ drawCnt[i] <= ExpectedDraws(i)
          /\ drawCnt[i] > 0 => fetchCnt[i] = 1
    /\ rateWrites <= fetchCnt[NetField]
    /\ pc = "sleep" =>
          /\ \A i \in AllFields : fetchCnt[i] = 1 /\ drawCnt[i] = ExpectedDraws(i)
          /\ rateWrites = 1

\* step part of C10
RateStateOwned ==
    rateState' # rateState => pc = "net_fetch" /\ rateWrites' = rateWrites + 1

\* C10: an iteration that reaches its sleep has fetched every field once,
\* called network_speed once, drawn every value after its fetch, and only
\* network_speed writes the rate globals, once per iteration.
C10_IterationFetchesThenDrawsThenSleeps == [](IterationShape) /\ [][RateStateOwned]_vars

C10_Witness ==
    /\ pc = "sleep"
    /\ iter = 2
    /\ \A i \in AllFields : fetchCnt[i] = 1
    /\ old_downloaded_bytes # 0

====
